---- MODULE Spec2Model ----
(***************************************************************************)
(* A model of PEPit's problem orchestrator (PEPit/pep.py): the class-level *)
(* basis counters, the PEP instances and their four lists, the compilation *)
(* of Expressions into linear forms over (F, G), the call of the external  *)
(* SDP solver and the reconstruction of the certificate.                   *)
(*                                                                         *)
(* Point, Expression and Function live in modules of the package that are  *)
(* not part of the sources at hand; what the orchestrator needs of them    *)
(* (a leaf takes the class counter as its index and increments it, a       *)
(* composite takes none) is modelled from the specification and marked so. *)
(***************************************************************************)
EXTENDS Integers, Sequences, FiniteSets, TLC

VARIABLES
    Point_counter,       \* Point.counter      (class attribute)
    Expression_counter,  \* Expression.counter (class attribute)
    Function_counter,    \* Function.counter   (class attribute)
    PEP_counter,         \* PEP.counter        (class attribute)
    peps,                \* the PEP instances constructed so far, by self.counter + 1
    point_value,         \* leaf Point objects minted so far -> their .value
    expr_value,          \* leaf function values minted so far -> their .value
    nsolves,             \* number of solve() calls made so far
    last,                \* what the most recent solve() call did
    pin,                 \* input of the pure-function specifications
    pout                 \* output of the pure-function specifications

vars == <<Point_counter, Expression_counter, Function_counter, PEP_counter,
          peps, point_value, expr_value, nsolves, last, pin, pout>>

basis == <<Point_counter, Expression_counter, Function_counter, PEP_counter,
           peps, point_value, expr_value, nsolves, last>>

-----------------------------------------------------------------------------
(* Bounds of the model.                                                    *)

MaxPEP == 2
MaxPoints == 2
MaxValues == 1
MaxFunctions == 1
MaxRegs == 1
MaxSolves == 1

-----------------------------------------------------------------------------
(* Objects.  A leaf is identified by the epoch it was minted in (the       *)
(* number of PEP instances constructed before it, a ghost field the code   *)
(* does not have) and the index the class counter gave it.                 *)

NoValue == <<>>

Epoch == PEP_counter - 1

LeafPoint(epoch, counter) == [is_leaf |-> TRUE, counter |-> counter, epoch |-> epoch]

CompositePoint == [is_leaf |-> FALSE, counter |-> 0 - 1, epoch |-> 0 - 1]

PointId(p) == <<p.epoch, p.counter>>

\* Keys of a decomposition_dict, by their Python type.
ExprKey(fv, counter, epoch) ==
    [type |-> "Expression", fv |-> fv, counter |-> counter, epoch |-> epoch,
     pts |-> <<>>, val |-> 0]

TupleKey(pts) ==
    [type |-> "tuple", fv |-> FALSE, counter |-> 0, epoch |-> 0, pts |-> pts, val |-> 0]

IntKey(v) ==
    [type |-> "int", fv |-> FALSE, counter |-> 0, epoch |-> 0, pts |-> <<>>, val |-> v]

StrKey ==
    [type |-> "str", fv |-> FALSE, counter |-> 0, epoch |-> 0, pts |-> <<>>, val |-> 0]

Item(key, weight) == [key |-> key, weight |-> weight]

LeafValue(epoch, counter) ==
    [is_function_value |-> TRUE, counter |-> counter, epoch |-> epoch,
     decomposition_dict |-> <<>>]

Composite(items) ==
    [is_function_value |-> FALSE, counter |-> 0 - 1, epoch |-> 0 - 1,
     decomposition_dict |-> items]

ValueId(e) == <<e.epoch, e.counter>>

-----------------------------------------------------------------------------
(* Small arithmetic helpers.                                               *)

RECURSIVE SumSeq(_)
SumSeq(s) == IF s = <<>> THEN 0 ELSE Head(s) + SumSeq(Tail(s))

Range(s) == {s[i] : i \in DOMAIN s}

MinOf(S) == CHOOSE x \in S : \A y \in S : x <= y

MaxOf(S) == CHOOSE x \in S : \A y \in S : y <= x

Zeros(n) == [i \in 0..(n - 1) |-> 0]

Zeros2(n) == [i \in 0..(n - 1) |-> [j \in 0..(n - 1) |-> 0]]

-----------------------------------------------------------------------------
(* PEP.expression_to_cvxpy.  The result is the linear form over (F, G)     *)
(* that the cvxpy expression denotes: a constant, the weights on F and the *)
(* weights on G; raised names the exception that ended the call, if any.   *)
(* The weight arrays are sized by the class counters read at the call, and *)
(* numpy raises IndexError for an index that is not below the size.        *)

Raise(acc, err) == [acc EXCEPT !.raised = err]

FlattenKey_double(key, weight, acc) ==
    IF key.type = "Expression" THEN
        IF ~key.fv THEN Raise(acc, "AssertionError")
        ELSE IF key.counter >= Expression_counter THEN Raise(acc, "IndexError")
        ELSE [acc EXCEPT !.Fweights[key.counter] = @ + weight]
    ELSE IF key.type = "tuple" THEN
        IF Len(key.pts) # 2 THEN Raise(acc, "ValueError")
        ELSE IF ~key.pts[1].is_leaf \/ ~key.pts[2].is_leaf THEN Raise(acc, "AssertionError")
        ELSE IF key.pts[1].counter >= Point_counter \/ key.pts[2].counter >= Point_counter
             THEN Raise(acc, "IndexError")
        ELSE IF key.pts[1].counter = key.pts[2].counter
             THEN [acc EXCEPT !.Gweights[key.pts[1].counter][key.pts[2].counter] = @ + weight]
        ELSE [acc EXCEPT !.Gweights[key.pts[1].counter][key.pts[2].counter] = @ + weight,
                         !.Gweights[key.pts[2].counter][key.pts[1].counter] = @ + weight]
    ELSE IF key.type = "int" /\ key.val = 1 THEN [acc EXCEPT !.const = @ + weight]
    ELSE Raise(acc, "TypeError")

FlattenKey_lenient(key, weight, acc) ==
    IF key.type = "Expression" THEN
        IF key.counter < 0 \/ key.counter >= Expression_counter THEN Raise(acc, "IndexError")
        ELSE [acc EXCEPT !.Fweights[key.counter] = @ + weight]
    ELSE IF key.type = "tuple" THEN
        IF Len(key.pts) # 2 THEN Raise(acc, "ValueError")
        ELSE IF ~key.pts[1].is_leaf \/ ~key.pts[2].is_leaf THEN Raise(acc, "AssertionError")
        ELSE IF key.pts[1].counter >= Point_counter \/ key.pts[2].counter >= Point_counter
             THEN Raise(acc, "IndexError")
        ELSE [acc EXCEPT !.Gweights[key.pts[1].counter][key.pts[2].counter] = @ + weight]
    ELSE IF key.type = "int" /\ key.val = 1 THEN [acc EXCEPT !.const = @ + weight]
    ELSE acc

\* One turn of the loop of lines 113-129.
FlattenKey(key, weight, acc) ==
    IF key.type = "Expression" THEN
        IF ~key.fv THEN Raise(acc, "AssertionError")
        ELSE IF key.counter >= Expression_counter THEN Raise(acc, "IndexError")
        ELSE [acc EXCEPT !.Fweights[key.counter] = @ + weight]
    ELSE IF key.type = "tuple" THEN
        IF Len(key.pts) # 2 THEN Raise(acc, "ValueError")
        ELSE IF ~key.pts[1].is_leaf \/ ~key.pts[2].is_leaf THEN Raise(acc, "AssertionError")
        ELSE IF key.pts[1].counter >= Point_counter \/ key.pts[2].counter >= Point_counter
             THEN Raise(acc, "IndexError")
        ELSE [acc EXCEPT !.Gweights[key.pts[1].counter][key.pts[2].counter] = @ + weight]
    ELSE IF key.type = "int" /\ key.val = 1 THEN [acc EXCEPT !.const = @ + weight]
    ELSE Raise(acc, "TypeError")

RECURSIVE FlattenItems(_, _, _)
FlattenItems(items, i, acc) ==
    IF acc.raised # "" \/ i > Len(items) THEN acc
    ELSE FlattenItems(items, i + 1, FlattenKey(items[i].key, items[i].weight, acc))

expression_to_cvxpy(expression) ==
    LET acc0 == [raised |-> "", const |-> 0,
                 Fweights |-> Zeros(Expression_counter),
                 Gweights |-> Zeros2(Point_counter)]
    IN  IF expression.is_function_value THEN
            IF expression.counter >= Expression_counter THEN Raise(acc0, "IndexError")
            ELSE [acc0 EXCEPT !.Fweights[expression.counter] = @ + 1]
        ELSE FlattenItems(expression.decomposition_dict, 1, acc0)

\* The number the compiled cvxpy expression takes at a point (F, G):
\* cvxpy_variable + F @ Fweights + sum(multiply(G, Gweights)).
EvalForm(form, F, G) ==
    LET nF == Cardinality(DOMAIN form.Fweights)
        nG == Cardinality(DOMAIN form.Gweights)
    IN  form.const
        + SumSeq([i \in 1..nF |-> F[i - 1] * form.Fweights[i - 1]])
        + SumSeq([i \in 1..nG |->
              SumSeq([j \in 1..nG |-> G[i - 1][j - 1] * form.Gweights[i - 1][j - 1]])])

-----------------------------------------------------------------------------
(* The objects the orchestrator creates.                                   *)

\* Point(is_leaf=True, decomposition_dict=None): the new leaf takes
\* Point.counter as its index (the constructor then increments it).
NewLeafPoint == LeafPoint(Epoch, Point_counter)

\* A leaf function value takes Expression.counter as its index.
NewLeafValue == LeafValue(Epoch, Expression_counter)

\* function_class(param, is_leaf=True, decomposition_dict=None,
\* is_differentiable=is_differentiable): takes Function.counter.
NewFunction(is_differentiable) ==
    [counter |-> Function_counter, epoch |-> Epoch, is_leaf |-> TRUE,
     is_differentiable |-> is_differentiable,
     list_of_points |-> <<>>, list_of_constraints |-> <<>>]

\* Whether oracle() returns the pair it produced before when it is called
\* again at the same point: a differentiable function has one gradient at
\* each point.
ReuseGradient(f) == f.is_differentiable

NewPEPInstance ==
    [counter |-> PEP_counter,
     list_of_functions |-> <<>>,
     list_of_points |-> <<>>,
     list_of_conditions |-> <<>>,
     list_of_performance_metrics |-> <<>>]

Triplet(x, g, f) == [point |-> x, gradient |-> g, function_value |-> f]

\* Class constraints of a convex function with gradients bounded by 1, over
\* its recorded triplets: for each i, <g_i, g_i> - 1 <= 0, and for each
\* j # i, f_i - f_j + <g_i, x_j> - <g_i, x_i> <= 0.
Interpolation(ti, tj) ==
    Composite(<<Item(ExprKey(TRUE, ti.function_value.counter, ti.function_value.epoch), 1),
                Item(ExprKey(TRUE, tj.function_value.counter, tj.function_value.epoch), 0 - 1),
                Item(TupleKey(<<ti.gradient, tj.point>>), 1),
                Item(TupleKey(<<ti.gradient, ti.point>>), 0 - 1)>>)

BoundedGradient(ti) ==
    Composite(<<Item(TupleKey(<<ti.gradient, ti.gradient>>), 1), Item(IntKey(1), 0 - 1)>>)

RECURSIVE Flatten2(_)
Flatten2(ss) == IF ss = <<>> THEN <<>> ELSE Head(ss) \o Flatten2(Tail(ss))

ClassConstraints(f) ==
    LET ts == f.list_of_points
        n  == Len(ts)
        others(i) == [k \in 1..(n - 1) |-> IF k >= i THEN k + 1 ELSE k]
    IN  Flatten2([i \in 1..n |->
            <<BoundedGradient(ts[i])>>
            \o [k \in 1..(n - 1) |-> Interpolation(ts[i], ts[others(i)[k]])]])

\* function.add_class_constraints(): the constraints are appended to the
\* function's list_of_constraints.
add_class_constraints(f) ==
    [f EXCEPT !.list_of_constraints = @ \o ClassConstraints(f)]

-----------------------------------------------------------------------------
(* The builder operations of PEP.                                          *)

\* The record of a solve() call: the instance it ran on (as the call left
\* it), the sizes it gave F and G, the constraints it handed to cvxpy, the
\* exception it ended in ("" if it returned), the stage it ended in ("alloc":
\* lines 147-149, "compile": 155-189, "solve": 194, "eval": 201, "return":
\* 204) and, as ghosts, the epoch and the leaves minted at the time of the call.
NoSolve ==
    [pep |-> 0 - 1, raised |-> "none", Gdim |-> 0, Flen |-> 0,
     constraints_list |-> <<>>, solver_calls |-> 0, status |-> "none",
     eig_val |-> <<>>, stage |-> "none", instance |-> <<>>, epoch |-> 0 - 1,
     points |-> {}, values |-> {}]

Init ==
    /\ Point_counter = 0
    /\ Expression_counter = 0
    /\ Function_counter = 0
    /\ PEP_counter = 0
    /\ peps = <<>>
    /\ point_value = <<>>
    /\ expr_value = <<>>
    /\ nsolves = 0
    /\ last = NoSolve
    /\ pin = <<>>
    /\ pout = <<>>

PEP_init_keep ==
    /\ peps' = Append(peps, NewPEPInstance)
    /\ PEP_counter' = PEP_counter + 1
    /\ UNCHANGED <<Point_counter, Expression_counter, Function_counter,
                   point_value, expr_value, nsolves, last, pin, pout>>

\* PEP.__init__
PEP_init ==
    /\ Point_counter' = 0
    /\ Expression_counter' = 0
    /\ Function_counter' = 0
    /\ peps' = Append(peps, NewPEPInstance)
    /\ PEP_counter' = PEP_counter + 1
    /\ UNCHANGED <<point_value, expr_value, nsolves, last, pin, pout>>

\* def declare_function(self, function_class, param, is_differentiable=True)
is_differentiable_default == TRUE

\* PEP.declare_function(function_class, param, is_differentiable)
declare_function_with(a, is_differentiable) ==
    /\ a \in DOMAIN peps
    /\ peps' = [peps EXCEPT ![a].list_of_functions =
                    Append(@, NewFunction(is_differentiable))]
    /\ Function_counter' = Function_counter + 1
    /\ UNCHANGED <<Point_counter, Expression_counter, PEP_counter, point_value,
                   expr_value, nsolves, last, pin, pout>>

\* PEP.declare_function(function_class, param)
declare_function(a) == declare_function_with(a, is_differentiable_default)

\* PEP.set_initial_point
set_initial_point(a) ==
    /\ a \in DOMAIN peps
    /\ peps' = [peps EXCEPT ![a].list_of_points = Append(@, NewLeafPoint)]
    /\ point_value' = point_value @@ (PointId(NewLeafPoint) :> NoValue)
    /\ Point_counter' = Point_counter + 1
    /\ UNCHANGED <<Expression_counter, Function_counter, PEP_counter, expr_value,
                   nsolves, last, pin, pout>>

\* The triplets of f recorded for the point x (the same object).
Queried(f, x) == {i \in DOMAIN f.list_of_points : f.list_of_points[i].point = x}

\* Function.oracle(x) on the k-th declared function of instance a: the pair
\* produced before when the function reuses gradients and x was queried
\* before; otherwise a new leaf gradient and a new leaf function value,
\* recorded as a triplet.
oracle(a, k, x) ==
    /\ a \in DOMAIN peps
    /\ k \in DOMAIN peps[a].list_of_functions
    /\ IF ReuseGradient(peps[a].list_of_functions[k])
          /\ Queried(peps[a].list_of_functions[k], x) # {}
       THEN UNCHANGED <<peps, point_value, expr_value, Point_counter, Expression_counter>>
       ELSE /\ peps' = [peps EXCEPT ![a].list_of_functions[k].list_of_points =
                           Append(@, Triplet(x, NewLeafPoint, NewLeafValue))]
            /\ point_value' = point_value @@ (PointId(NewLeafPoint) :> NoValue)
            /\ expr_value' = expr_value @@ (ValueId(NewLeafValue) :> NoValue)
            /\ Point_counter' = Point_counter + 1
            /\ Expression_counter' = Expression_counter + 1
    /\ UNCHANGED <<Function_counter, PEP_counter, nsolves, last, pin, pout>>

\* A registration that puts the condition in front of the list.
set_initial_condition_front(a, condition) ==
    /\ a \in DOMAIN peps
    /\ peps' = [peps EXCEPT ![a].list_of_conditions = <<condition>> \o @]
    /\ UNCHANGED <<Point_counter, Expression_counter, Function_counter, PEP_counter,
                   point_value, expr_value, nsolves, last, pin, pout>>

\* PEP.set_initial_condition
set_initial_condition(a, condition) ==
    /\ a \in DOMAIN peps
    /\ peps' = [peps EXCEPT ![a].list_of_conditions = Append(@, condition)]
    /\ UNCHANGED <<Point_counter, Expression_counter, Function_counter, PEP_counter,
                   point_value, expr_value, nsolves, last, pin, pout>>

\* PEP.set_performance_metric
set_performance_metric(a, expression) ==
    /\ a \in DOMAIN peps
    /\ peps' = [peps EXCEPT ![a].list_of_performance_metrics = Append(@, expression)]
    /\ UNCHANGED <<Point_counter, Expression_counter, Function_counter, PEP_counter,
                   point_value, expr_value, nsolves, last, pin, pout>>

-----------------------------------------------------------------------------
(* PEP.eval_points_and_function_values.  Eigenvalues are counted in units  *)
(* of 10^-5, so that the tolerance 10^-4 of line 218 is the integer Tol.   *)

Tol == 10

\* assert np.min(eig_val) >= - 10**-4
GramCheck_strict(eig_val) == MinOf(Range(eig_val)) > 0 - Tol

GramCheck(eig_val) == MinOf(Range(eig_val)) >= 0 - Tol

\* A clip that reflects the negative eigenvalues instead of zeroing them.
ClipEig_abs(eig_val) == [i \in DOMAIN eig_val |-> IF eig_val[i] < 0 THEN 0 - eig_val[i] ELSE eig_val[i]]

\* eig_val = np.maximum(eig_val, 0)
ClipEig(eig_val) == [i \in DOMAIN eig_val |-> IF eig_val[i] < 0 THEN 0 ELSE eig_val[i]]

\* A loop over the triplets that passes over the gradients.
TripletTargets_nograd(t) ==
    (IF t.point.is_leaf THEN <<[kind |-> "P", obj |-> t.point]>> ELSE <<>>)
    \o (IF t.function_value.is_function_value
        THEN <<[kind |-> "V", obj |-> t.function_value]>> ELSE <<>>)

\* The leaves the loops of lines 227-239 visit, in the order they visit them.
TripletTargets(t) ==
    (IF t.point.is_leaf THEN <<[kind |-> "P", obj |-> t.point]>> ELSE <<>>)
    \o (IF t.gradient.is_leaf THEN <<[kind |-> "P", obj |-> t.gradient]>> ELSE <<>>)
    \o (IF t.function_value.is_function_value
        THEN <<[kind |-> "V", obj |-> t.function_value]>> ELSE <<>>)

FunctionTargets(f) ==
    IF f.is_leaf
    THEN Flatten2([i \in 1..Len(f.list_of_points) |-> TripletTargets(f.list_of_points[i])])
    ELSE <<>>

EvalTargets(pep) ==
    Flatten2([i \in 1..Len(pep.list_of_points) |->
                IF pep.list_of_points[i].is_leaf
                THEN <<[kind |-> "P", obj |-> pep.list_of_points[i]]>> ELSE <<>>])
    \o Flatten2([k \in 1..Len(pep.list_of_functions) |->
                FunctionTargets(pep.list_of_functions[k])])

\* point.value = points_values[:, point.counter] and
\* function_value.value = F_value[function_value.counter]: numpy raises
\* IndexError when the index is not below the size; the assignments made
\* before that stay.  A value is recorded as <<solve call, index read>>.
RECURSIVE AssignValues(_, _, _, _, _)
AssignValues(targets, i, st, Gdim, Flen) ==
    IF st.raised # "" \/ i > Len(targets) THEN st
    ELSE LET t == targets[i] IN
         IF t.kind = "P" THEN
            IF t.obj.counter >= Gdim
            THEN AssignValues(targets, i + 1, [st EXCEPT !.raised = "IndexError"], Gdim, Flen)
            ELSE AssignValues(targets, i + 1,
                    [st EXCEPT !.pv[PointId(t.obj)] = <<nsolves + 1, t.obj.counter>>],
                    Gdim, Flen)
         ELSE
            IF t.obj.counter >= Flen
            THEN AssignValues(targets, i + 1, [st EXCEPT !.raised = "IndexError"], Gdim, Flen)
            ELSE AssignValues(targets, i + 1,
                    [st EXCEPT !.ev[ValueId(t.obj)] = <<nsolves + 1, t.obj.counter>>],
                    Gdim, Flen)

\* A reconstruction that returns quietly when F.value and G.value are None.
eval_tolerate_none(pep, has_values, eig_val, Gdim, Flen) ==
    LET st0 == [raised |-> "", pv |-> point_value, ev |-> expr_value, eig_val |-> <<>>]
    IN  IF ~has_values THEN st0
        ELSE IF eig_val = <<>> THEN [st0 EXCEPT !.raised = "ValueError"]
        ELSE IF ~GramCheck(eig_val) THEN [st0 EXCEPT !.raised = "AssertionError"]
        ELSE AssignValues(EvalTargets(pep), 1,
                          [st0 EXCEPT !.eig_val = ClipEig(eig_val)], Gdim, Flen)

\* has_values: the solver left numbers in F.value and G.value (otherwise
\* they are None and np.linalg.eig rejects the argument); eig_val: the
\* eigenvalues np.linalg.eig finds for G_value.
eval_points_and_function_values(pep, has_values, eig_val, Gdim, Flen) ==
    LET st0 == [raised |-> "", pv |-> point_value, ev |-> expr_value, eig_val |-> <<>>]
    IN  IF ~has_values THEN [st0 EXCEPT !.raised = "LinAlgError"]
        ELSE IF eig_val = <<>> THEN [st0 EXCEPT !.raised = "ValueError"]
        ELSE IF ~GramCheck(eig_val) THEN [st0 EXCEPT !.raised = "AssertionError"]
        ELSE AssignValues(EvalTargets(pep), 1,
                          [st0 EXCEPT !.eig_val = ClipEig(eig_val)], Gdim, Flen)

-----------------------------------------------------------------------------
(* PEP.solve.                                                              *)

CompileAll_le0(exprs, kind) ==
    [i \in 1..Len(exprs) |-> [kind |-> "le0", form |-> expression_to_cvxpy(exprs[i])]]

\* One cvxpy constraint per expression: "metric" is objective <= form,
\* "le0" is form <= 0.
CompileAll(exprs, kind) ==
    [i \in 1..Len(exprs) |-> [kind |-> kind, form |-> expression_to_cvxpy(exprs[i])]]

\* The exception of the first expression that raises, "" if none does.
RaisedIn(cs) ==
    LET bad == {i \in DOMAIN cs : cs[i].form.raised # ""}
    IN  IF bad = {} THEN "" ELSE cs[MinOf(bad)].form.raised

\* The loop of lines 178-184 from the k-th function on.
RECURSIVE CompileFunctions(_, _, _)
CompileFunctions(fs, k, st) ==
    IF st.raised # "" \/ k > Len(fs) THEN st
    ELSE LET f  == add_class_constraints(fs[k])
             cs == CompileAll(f.list_of_constraints, "le0")
         IN  CompileFunctions(fs, k + 1,
                [raised |-> RaisedIn(cs),
                 functions |-> [st.functions EXCEPT ![k] = f],
                 constraints |-> st.constraints \o cs])

\* F = cp.Variable((Expression.counter,))
FSize == Expression_counter

GramSize_swapped == Expression_counter

\* G = cp.Variable((Point.counter, Point.counter), PSD=True)
GramSize == Point_counter

AllConstraints_noconds(mets, conds, fcs) == mets \o fcs

\* constraints_list after the three loops of lines 160-182.
AllConstraints(mets, conds, fcs) == mets \o conds \o fcs

SolverStatuses == {"optimal", "infeasible", "unbounded", "solver_error"}

\* What one call of solve() on instance a does.  status and eig_val are the
\* answers of the external solver and of np.linalg.eig; zero_ok says
\* whether cvxpy accepts a variable with a dimension of 0.
solve_run(a, status, eig_val, zero_ok) ==
    LET pep   == peps[a]
        Flen  == FSize
        Gdim  == GramSize
        base  == [raised |-> "", functions |-> pep.list_of_functions,
                  constraints_list |-> <<>>, solver_calls |-> 0, status |-> "none",
                  pv |-> point_value, ev |-> expr_value, eig_val |-> <<>>,
                  stage |-> "compile"]
        mets  == CompileAll(pep.list_of_performance_metrics, "metric")
        conds == CompileAll(pep.list_of_conditions, "le0")
        fc    == CompileFunctions(pep.list_of_functions, 1,
                    [raised |-> "", functions |-> pep.list_of_functions,
                     constraints |-> <<>>])
        all   == AllConstraints(mets, conds, fc.constraints)
        pep2  == [pep EXCEPT !.list_of_functions = fc.functions]
        rec   == eval_points_and_function_values(pep2, status \in {"optimal"},
                                                 eig_val, Gdim, Flen)
    IN  IF (Flen = 0 \/ Gdim = 0) /\ ~zero_ok
             THEN [base EXCEPT !.raised = "ValueError", !.stage = "alloc"]
        ELSE IF RaisedIn(mets) # "" THEN [base EXCEPT !.raised = RaisedIn(mets)]
        ELSE IF RaisedIn(conds) # "" THEN [base EXCEPT !.raised = RaisedIn(conds)]
        ELSE IF fc.raised # ""
             THEN [base EXCEPT !.raised = fc.raised, !.functions = fc.functions]
        ELSE IF status = "solver_error"
             THEN [base EXCEPT !.raised = "SolverError", !.functions = fc.functions,
                               !.constraints_list = all, !.solver_calls = 1,
                               !.status = status, !.stage = "solve"]
        ELSE [raised |-> rec.raised, functions |-> fc.functions,
              constraints_list |-> all, solver_calls |-> 1, status |-> status,
              pv |-> rec.pv, ev |-> rec.ev, eig_val |-> rec.eig_val,
              stage |-> IF rec.raised = "" THEN "return" ELSE "eval"]

solve(a, status, eig_val, zero_ok) ==
    /\ a \in DOMAIN peps
    /\ LET r == solve_run(a, status, eig_val, zero_ok) IN
        /\ peps' = [peps EXCEPT ![a].list_of_functions = r.functions]
        /\ point_value' = r.pv
        /\ expr_value' = r.ev
        /\ last' = [pep |-> peps[a].counter, raised |-> r.raised,
                    Gdim |-> GramSize, Flen |-> FSize,
                    constraints_list |-> r.constraints_list,
                    solver_calls |-> r.solver_calls, status |-> r.status,
                    eig_val |-> r.eig_val, stage |-> r.stage,
                    instance |-> [peps[a] EXCEPT !.list_of_functions = r.functions],
                    epoch |-> Epoch,
                    points |-> DOMAIN point_value, values |-> DOMAIN expr_value]
    /\ nsolves' = nsolves + 1
    /\ UNCHANGED <<Point_counter, Expression_counter, Function_counter, PEP_counter,
                   pin, pout>>

-----------------------------------------------------------------------------
(* The specification of the orchestrator: any number of instances, built   *)
(* and solved in any order, with function values and squared norms of the  *)
(* leaves minted so far as conditions and metrics.                         *)

MintedPoints == {LeafPoint(id[1], id[2]) : id \in DOMAIN point_value}

MintedValues == {LeafValue(id[1], id[2]) : id \in DOMAIN expr_value}

SimpleExprs ==
    MintedValues \cup {Composite(<<Item(TupleKey(<<p, p>>), 1)>>) : p \in MintedPoints}

EigSamplesBasic == {0 - 11, 0 - 10}

EigChoices(status, samples) ==
    IF status = "optimal" THEN {[i \in 1..Point_counter |-> v] : v \in samples}
    ELSE {<<>>}

\* Number of conditions and metrics registered so far, over all instances.
RegCount ==
    SumSeq([a \in DOMAIN peps |->
        Len(peps[a].list_of_conditions) + Len(peps[a].list_of_performance_metrics)])

Next ==
    \/ PEP_counter < MaxPEP /\ PEP_init
    \/ \E a \in DOMAIN peps : Function_counter < MaxFunctions /\ declare_function(a)
    \/ \E a \in DOMAIN peps : Point_counter < MaxPoints /\ set_initial_point(a)
    \/ \E a \in DOMAIN peps : \E k \in DOMAIN peps[a].list_of_functions :
          \E x \in Range(peps[a].list_of_points) :
             /\ Point_counter < MaxPoints
             /\ Expression_counter < MaxValues
             /\ oracle(a, k, x)
    \/ \E a \in DOMAIN peps : \E e \in SimpleExprs :
          RegCount < MaxRegs /\ set_initial_condition(a, e)
    \/ \E a \in DOMAIN peps : \E e \in SimpleExprs :
          RegCount < MaxRegs /\ set_performance_metric(a, e)
    \/ \E a \in DOMAIN peps : \E status \in SolverStatuses :
          \E eig_val \in EigChoices(status, EigSamplesBasic) : \E zero_ok \in BOOLEAN :
             nsolves < MaxSolves /\ solve(a, status, eig_val, zero_ok)

Spec == Init /\ [][Next]_vars

-----------------------------------------------------------------------------
(* Claims about the basis counters and the instances.                      *)

FunctionsOf(k) ==
    {f \in UNION {Range(peps[a].list_of_functions) : a \in DOMAIN peps} : f.epoch = k}

\* C1: every construction of a PEP instance restarts the three class
\* counters at zero: the leaf points, the leaf function values and the
\* functions minted after it are indexed 0, 1, 2, ... from zero, whatever
\* was minted before, and each counter is the number minted since.
C1_BasisIsolation ==
    /\ \A id \in DOMAIN point_value : \A c \in 0..id[2] : <<id[1], c>> \in DOMAIN point_value
    /\ \A id \in DOMAIN expr_value : \A c \in 0..id[2] : <<id[1], c>> \in DOMAIN expr_value
    /\ \A k \in 0..Epoch : \A f \in FunctionsOf(k) :
          \A c \in 0..f.counter : \E g \in FunctionsOf(k) : g.counter = c
    /\ PEP_counter > 0 =>
          /\ Point_counter = Cardinality({id \in DOMAIN point_value : id[1] = Epoch})
          /\ Expression_counter = Cardinality({id \in DOMAIN expr_value : id[1] = Epoch})
          /\ Function_counter = Cardinality(FunctionsOf(Epoch))

\* A second instance has minted its first leaf point, leaf value and
\* function after the first instance minted two points, a value and a function.
C1_Witness ==
    /\ PEP_counter = 2
    /\ {<<0, 0>>, <<0, 1>>, <<1, 0>>} \subseteq DOMAIN point_value
    /\ {<<0, 0>>, <<1, 0>>} \subseteq DOMAIN expr_value
    /\ FunctionsOf(0) # {} /\ FunctionsOf(1) # {}

\* The epochs of the leaves an expression refers to.
KeyEpochs(key) ==
    IF key.type = "Expression" THEN {key.epoch}
    ELSE IF key.type = "tuple" THEN {key.pts[i].epoch : i \in DOMAIN key.pts}
    ELSE {}

ExprEpochs(e) ==
    IF e.is_function_value THEN {e.epoch}
    ELSE UNION {KeyEpochs(e.decomposition_dict[i].key) : i \in DOMAIN e.decomposition_dict}

Registered(pep) ==
    Range(pep.list_of_conditions) \cup Range(pep.list_of_performance_metrics)

Solved == last.pep >= 0

\* The last solve() ran on the instance constructed last.
SolvedCurrent == Solved /\ last.pep = last.epoch

\* The last solve() ran on an instance after which another was constructed.
SolvedOlder == Solved /\ last.pep < last.epoch

\* Every leaf in the instance's own lists was minted under its own epoch:
\* the instance was built before any later instance was constructed.
OwnBuilt(pep) ==
    /\ \A i \in DOMAIN pep.list_of_points : pep.list_of_points[i].epoch = pep.counter
    /\ \A k \in DOMAIN pep.list_of_functions :
          /\ pep.list_of_functions[k].epoch = pep.counter
          /\ \A i \in DOMAIN pep.list_of_functions[k].list_of_points :
                LET t == pep.list_of_functions[k].list_of_points[i]
                IN  /\ t.point.epoch = pep.counter
                    /\ t.gradient.epoch = pep.counter
                    /\ t.function_value.epoch = pep.counter

LeavesOf(ids, k) == {id \in ids : id[1] = k}

\* C2: a solve() of the current instance that has a condition or a metric
\* referring to a leaf minted under an earlier epoch ends in an error (here
\* for an instance that has an initial point and an oracle call of its own,
\* so that F and G are not empty).
C2_StaleFailsFast ==
    (/\ SolvedCurrent
     /\ OwnBuilt(last.instance)
     /\ last.instance.list_of_points # <<>>
     /\ \E f \in Range(last.instance.list_of_functions) : f.list_of_points # <<>>
     /\ \E e \in Registered(last.instance) : \E k \in ExprEpochs(e) : k < last.epoch)
    => last.raised # ""

\* C3: a solve() of an instance after which another instance was
\* constructed still sizes G and F by the leaves minted under its own
\* epoch (here for an instance that minted leaves, all of them before the
\* later instance was constructed).
C3_InstancesIndependent ==
    (/\ SolvedOlder
     /\ OwnBuilt(last.instance)
     /\ LeavesOf(last.points, last.pep) # {})
    => /\ last.Gdim = Cardinality(LeavesOf(last.points, last.pep))
       /\ last.Flen = Cardinality(LeavesOf(last.values, last.pep))

\* C4: a solve() of the instance constructed last gives G the size P x P
\* and F the length V, P and V being the numbers of leaf points (initial
\* points and oracle gradients) and leaf function values minted since that
\* instance was constructed; composites are not counted.
C4_GramSize ==
    SolvedCurrent =>
        /\ last.Gdim = Cardinality(LeavesOf(last.points, last.epoch))
        /\ last.Flen = Cardinality(LeavesOf(last.values, last.epoch))

\* A solved instance with an initial point, an oracle gradient, a function
\* value and a composite registered as a condition or metric.
C4_Witness ==
    /\ SolvedCurrent
    /\ last.raised = ""
    /\ last.Gdim = 2 /\ last.Flen = 1
    /\ Len(last.instance.list_of_points) = 1
    /\ \E f \in Range(last.instance.list_of_functions) : Len(f.list_of_points) = 1
    /\ \E e \in Registered(last.instance) : ~e.is_function_value

-----------------------------------------------------------------------------
(* The specification of one instance compiled with every kind of           *)
(* expression: well-formed ones over the leaves minted so far, and ones    *)
(* with a key of no permitted kind or with an empty decomposition.         *)

MaxPerList == 1

GoodExprs ==
    MintedValues
    \cup {Composite(<<Item(TupleKey(<<p, q>>), 1)>>) : p \in MintedPoints, q \in MintedPoints}
    \cup {Composite(<<Item(TupleKey(<<p, p>>), 1), Item(IntKey(1), 0 - 1)>>) : p \in MintedPoints}
    \cup {Composite(<<Item(ExprKey(TRUE, v.counter, v.epoch), 0 - 1), Item(IntKey(1), 1)>>) :
             v \in MintedValues}

BadExprs ==
    {Composite(<<>>),
     Composite(<<Item(StrKey, 1)>>),
     Composite(<<Item(IntKey(2), 1)>>),
     Composite(<<Item(IntKey(1), 1), Item(StrKey, 1)>>),
     Composite(<<Item(ExprKey(FALSE, 0 - 1, 0 - 1), 1)>>)}
    \cup {Composite(<<Item(TupleKey(<<p, CompositePoint>>), 1)>>) : p \in MintedPoints}
    \cup {Composite(<<Item(TupleKey(<<p>>), 1)>>) : p \in MintedPoints}

RichExprs == GoodExprs \cup BadExprs

NextCompile ==
    \/ PEP_counter < 1 /\ PEP_init
    \/ \E a \in DOMAIN peps : Function_counter < MaxFunctions /\ declare_function(a)
    \/ \E a \in DOMAIN peps : Point_counter < MaxPoints /\ set_initial_point(a)
    \/ \E a \in DOMAIN peps : \E k \in DOMAIN peps[a].list_of_functions :
          \E x \in Range(peps[a].list_of_points) :
             /\ Point_counter < MaxPoints
             /\ Expression_counter < MaxValues
             /\ oracle(a, k, x)
    \/ \E a \in DOMAIN peps : \E e \in RichExprs :
          Len(peps[a].list_of_conditions) < MaxPerList /\ set_initial_condition(a, e)
    \/ \E a \in DOMAIN peps : \E e \in RichExprs :
          Len(peps[a].list_of_performance_metrics) < MaxPerList
          /\ set_performance_metric(a, e)
    \/ \E a \in DOMAIN peps : \E status \in SolverStatuses :
          \E eig_val \in EigChoices(status, EigSamplesBasic) : \E zero_ok \in BOOLEAN :
             nsolves < MaxSolves /\ solve(a, status, eig_val, zero_ok)

SpecCompile == Init /\ [][NextCompile]_vars

-----------------------------------------------------------------------------
(* Claims about the compilation.                                           *)

\* The expressions solve() compiles, in the order it compiles them.
CompiledExprs(pep) ==
    pep.list_of_performance_metrics
    \o pep.list_of_conditions
    \o Flatten2([k \in 1..Len(pep.list_of_functions) |->
                    pep.list_of_functions[k].list_of_constraints])

\* The solver was handed a compiled problem.
Compiled == Solved /\ last.solver_calls = 1

\* C5: the compiled problem has one constraint t <= form per metric, then
\* one constraint form <= 0 per initial condition and per constraint of
\* each declared function, and no other.
C5_ConstraintCount ==
    Compiled =>
        LET m  == Len(last.instance.list_of_performance_metrics)
            c  == Len(last.instance.list_of_conditions)
            fs == last.instance.list_of_functions
            n  == SumSeq([k \in 1..Len(fs) |-> Len(fs[k].list_of_constraints)])
            cl == last.constraints_list
        IN  /\ Len(cl) = m + c + n
            /\ \A i \in 1..Len(cl) : cl[i].kind = (IF i <= m THEN "metric" ELSE "le0")
            /\ \A i \in 1..Len(cl) : cl[i].form.raised = ""

\* A compiled problem with a metric, a condition and a class constraint.
C5_Witness ==
    /\ Compiled
    /\ last.instance.list_of_performance_metrics # <<>>
    /\ last.instance.list_of_conditions # <<>>
    /\ \E f \in Range(last.instance.list_of_functions) : f.list_of_constraints # <<>>
    /\ \A e \in Registered(last.instance) : e.is_function_value \/ e.decomposition_dict # <<>>
    /\ Len(last.constraints_list) >= 3

\* The three permitted kinds of key.
PermittedKey(key) ==
    \/ key.type = "Expression" /\ key.fv
    \/ key.type = "tuple" /\ Len(key.pts) = 2 /\ \A i \in DOMAIN key.pts : key.pts[i].is_leaf
    \/ key.type = "int" /\ key.val = 1

MalformedKeys(e) ==
    IF e.is_function_value THEN {}
    ELSE {i \in DOMAIN e.decomposition_dict : ~PermittedKey(e.decomposition_dict[i].key)}

\* solve() got past the allocation of F and G and compiled an expression
\* that has a key of no permitted kind.
CompiledMalformed ==
    /\ Solved /\ last.stage # "alloc"
    /\ \E i \in DOMAIN CompiledExprs(last.instance) :
          MalformedKeys(CompiledExprs(last.instance)[i]) # {}

\* The first key of no permitted kind that the compilation meets.
FirstMalformedKey ==
    LET es == CompiledExprs(last.instance)
        e  == es[MinOf({i \in DOMAIN es : MalformedKeys(es[i]) # {}})]
    IN  e.decomposition_dict[MinOf(MalformedKeys(e))].key

C8_EmptyDecompositionFails ==
    (/\ Solved /\ last.stage # "alloc"
     /\ last.Gdim > 0 /\ last.Flen > 0
     /\ \E i \in DOMAIN CompiledExprs(last.instance) :
           LET e == CompiledExprs(last.instance)[i]
           IN  ~e.is_function_value /\ e.decomposition_dict = <<>>)
    => last.solver_calls = 0

-----------------------------------------------------------------------------
(* expression_to_cvxpy as a function: an expression over a basis of        *)
(* MaxPoints leaf points and MaxValues leaf function values is flattened   *)
(* into a linear form of the variables F and G, which is then compared at  *)
(* every symmetric G and every F of a grid.  Two items of a decomposition  *)
(* may carry the same indices (keys that are distinct objects with equal   *)
(* counters).                                                              *)

MaxItems == 2

FlatVals == {0, 1}

FlatWeights == {0 - 1, 1}

FVectors(n, vals) == [0..(n - 1) -> vals]

UpperCells(n) == {c \in (0..(n - 1)) \X (0..(n - 1)) : c[1] <= c[2]}

SymMatrices(n, vals) ==
    {[i \in 0..(n - 1) |-> [j \in 0..(n - 1) |->
         IF i <= j THEN ut[<<i, j>>] ELSE ut[<<j, i>>]]] : ut \in [UpperCells(n) -> vals]}

FlatKeys ==
    {ExprKey(TRUE, c, 0) : c \in 0..(MaxValues - 1)}
    \cup {TupleKey(<<LeafPoint(0, i), LeafPoint(0, j)>>) :
             i \in 0..(MaxPoints - 1), j \in 0..(MaxPoints - 1)}
    \cup {IntKey(1)}

FlatItems == {Item(k, w) : k \in FlatKeys, w \in FlatWeights}

FlatExprs ==
    {LeafValue(0, c) : c \in 0..(MaxValues - 1)}
    \cup {Composite(items) : items \in UNION {[1..n -> FlatItems] : n \in 0..MaxItems}}

InitFlat ==
    /\ Point_counter = MaxPoints
    /\ Expression_counter = MaxValues
    /\ Function_counter = 0
    /\ PEP_counter = 1
    /\ peps = <<[NewPEPInstance EXCEPT !.counter = 0]>>
    /\ point_value = [id \in {0} \X (0..(MaxPoints - 1)) |-> NoValue]
    /\ expr_value = [id \in {0} \X (0..(MaxValues - 1)) |-> NoValue]
    /\ nsolves = 0
    /\ last = NoSolve
    /\ pin \in {[expression |-> e] : e \in FlatExprs}
    /\ pout = <<>>

\* A call of expression_to_cvxpy(expression, F, G) on the variables F and G.
FlattenStep ==
    /\ pout = <<>>
    /\ pout' = [form |-> expression_to_cvxpy(pin.expression)]
    /\ UNCHANGED <<basis, pin>>

NextFlat == FlattenStep

SpecFlat == InitFlat /\ [][NextFlat]_vars

\* The number an item stands for: w * F[v], w * G[i, j] or w.
TermValue(item, F, G) ==
    IF item.key.type = "Expression" THEN item.weight * F[item.key.counter]
    ELSE IF item.key.type = "tuple"
         THEN item.weight * G[item.key.pts[1].counter][item.key.pts[2].counter]
    ELSE item.weight

\* The number a well-formed expression stands for at (F, G).
DirectEval(e, F, G) ==
    IF e.is_function_value THEN F[e.counter]
    ELSE SumSeq([i \in 1..Len(e.decomposition_dict) |->
                    TermValue(e.decomposition_dict[i], F, G)])

\* C9: the flattened form of a well-formed expression takes at every
\* symmetric G and every F the value const + sum w_v F[v] + sum w_ij G[i,j]
\* over the items of its decomposition, each item counted once; a
\* function-value leaf takes the value F[its index].
C9_FlatteningExact ==
    pout # <<>> =>
        /\ pout.form.raised = ""
        /\ \A F \in FVectors(MaxValues, FlatVals) :
           \A G \in SymMatrices(MaxPoints, FlatVals) :
              EvalForm(pout.form, F, G) = DirectEval(pin.expression, F, G)

\* A flattened expression with two items on the same off-diagonal cell of G:
\* where that cell is 1 and the rest of G is 0 the form takes the value 2.
C9_Witness ==
    /\ pout # <<>>
    /\ ~pin.expression.is_function_value
    /\ Len(pin.expression.decomposition_dict) = 2
    /\ \A i \in 1..2 :
          /\ pin.expression.decomposition_dict[i].key.type = "tuple"
          /\ pin.expression.decomposition_dict[i].key.pts[1].counter = 0
          /\ pin.expression.decomposition_dict[i].key.pts[2].counter = 1
          /\ pin.expression.decomposition_dict[i].weight = 1
    /\ \E G \in SymMatrices(MaxPoints, FlatVals) :
          /\ \A i \in 0..(MaxPoints - 1) : \A j \in 0..(MaxPoints - 1) :
                G[i][j] = (IF {i, j} = {0, 1} THEN 1 ELSE 0)
          /\ EvalForm(pout.form, Zeros(MaxValues), G) = 2

-----------------------------------------------------------------------------
(* eval_points_and_function_values as a function of the eigenvalues of the *)
(* Gram matrix the solver returned: an instance with n initial points is   *)
(* handed a G whose n eigenvalues are drawn from values around the         *)
(* tolerance.                                                              *)

MaxEig == 3

EigSamples == {0 - Tol - 1, 0 - Tol, 0 - 1, 0, 3}

EigInputs == UNION {[1..n -> EigSamples] : n \in 1..MaxEig}

InitEig ==
    /\ pin \in {[eig_val |-> ev] : ev \in EigInputs}
    /\ Point_counter = Len(pin.eig_val)
    /\ Expression_counter = 0
    /\ Function_counter = 0
    /\ PEP_counter = 1
    /\ peps = <<[NewPEPInstance EXCEPT
                   !.counter = 0,
                   !.list_of_points = [i \in 1..Len(pin.eig_val) |-> LeafPoint(0, i - 1)]]>>
    /\ point_value = [id \in {0} \X (0..(Len(pin.eig_val) - 1)) |-> NoValue]
    /\ expr_value = <<>>
    /\ nsolves = 0
    /\ last = NoSolve
    /\ pout = <<>>

\* A call of eval_points_and_function_values(F.value, G.value) on the
\* instance, G.value having the eigenvalues pin.eig_val.
EvalStep ==
    /\ pout = <<>>
    /\ LET r == eval_points_and_function_values(peps[1], TRUE, pin.eig_val,
                                                Point_counter, Expression_counter)
       IN  /\ pout' = [raised |-> r.raised, eig_val |-> r.eig_val]
           /\ point_value' = r.pv
           /\ expr_value' = r.ev
    /\ UNCHANGED <<Point_counter, Expression_counter, Function_counter, PEP_counter,
                   peps, nsolves, last, pin>>

NextEig == EvalStep

SpecEig == InitEig /\ [][NextEig]_vars

-----------------------------------------------------------------------------
(* The compiled problem as an optimisation problem.  An instance with an   *)
(* initial point x0 and a function queried at x0 is given well-formed      *)
(* metrics and conditions and solved; the problem solve() hands to cvxpy   *)
(* is then evaluated over a grid of vectors F and symmetric positive       *)
(* semidefinite matrices G with small integer entries.                     *)

MaxMetrics == 2

GridVals == {0 - 1, 0, 1}

Abs(x) == IF x < 0 THEN 0 - x ELSE x

RECURSIVE SortedSeq(_)
SortedSeq(S) == IF S = {} THEN <<>> ELSE <<MinOf(S)>> \o SortedSeq(S \ {MinOf(S)})

DropAt(s, k) == [i \in 1..(Len(s) - 1) |-> IF i < k THEN s[i] ELSE s[i + 1]]

\* Determinant of the submatrix of g on the given rows and columns.
RECURSIVE Det(_, _, _)
Det(g, rows, cols) ==
    IF rows = <<>> THEN 1
    ELSE SumSeq([k \in 1..Len(cols) |->
            (IF k % 2 = 1 THEN 1 ELSE 0 - 1) * g[rows[1]][cols[k]]
            * Det(g, Tail(rows), DropAt(cols, k))])

\* A symmetric matrix is positive semidefinite iff its principal minors
\* are all non-negative.
IsPSD(g, n) ==
    \A S \in SUBSET (0..(n - 1)) : Det(g, SortedSeq(S), SortedSeq(S)) >= 0

PsdMatrices(n, vals) == {g \in SymMatrices(n, vals) : IsPSD(g, n)}

EpiTriplets == IF MaxValues < MaxPoints - 1 THEN MaxValues ELSE MaxPoints - 1

EpiPoints == EpiTriplets + 1

EpiKeys ==
    {ExprKey(TRUE, c, 0) : c \in 0..(EpiTriplets - 1)}
    \cup {TupleKey(<<LeafPoint(0, i), LeafPoint(0, j)>>) :
             i \in 0..(EpiPoints - 1), j \in 0..(EpiPoints - 1)}
    \cup {IntKey(1)}

EpiExprs ==
    {LeafValue(0, c) : c \in 0..(EpiTriplets - 1)}
    \cup {Composite(<<Item(k, w)>>) : k \in EpiKeys, w \in FlatWeights}
    \cup {Composite(<<Item(TupleKey(<<LeafPoint(0, i), LeafPoint(0, i)>>), 1),
                      Item(IntKey(1), 0 - 1)>>) : i \in 0..(EpiPoints - 1)}

EpiFunction ==
    [counter |-> 0, epoch |-> 0, is_leaf |-> TRUE, is_differentiable |-> FALSE,
     list_of_points |-> [i \in 1..EpiTriplets |->
                            Triplet(LeafPoint(0, 0), LeafPoint(0, i), LeafValue(0, i - 1))],
     list_of_constraints |-> <<>>]

\* The state after PEP(), set_initial_point(), declare_function() with
\* is_differentiable=False, the oracle calls at x0, and the registration of
\* the metrics and conditions.
InitEpi ==
    /\ Point_counter = EpiPoints
    /\ Expression_counter = EpiTriplets
    /\ Function_counter = 1
    /\ PEP_counter = 1
    /\ \E ms \in UNION {[1..n -> EpiExprs] : n \in 1..MaxMetrics} :
       \E cs \in UNION {[1..n -> EpiExprs] : n \in 0..MaxPerList} :
          peps = <<[counter |-> 0,
                    list_of_functions |-> <<EpiFunction>>,
                    list_of_points |-> <<LeafPoint(0, 0)>>,
                    list_of_conditions |-> cs,
                    list_of_performance_metrics |-> ms]>>
    /\ point_value = [id \in {0} \X (0..(EpiPoints - 1)) |-> NoValue]
    /\ expr_value = [id \in {0} \X (0..(EpiTriplets - 1)) |-> NoValue]
    /\ nsolves = 0
    /\ last = NoSolve
    /\ pin = <<>>
    /\ pout = <<>>

NextEpi ==
    \E status \in SolverStatuses :
       \E eig_val \in EigChoices(status, EigSamplesBasic) :
          nsolves < MaxSolves /\ solve(1, status, eig_val, TRUE)

SpecEpi == InitEpi /\ [][NextEpi]_vars

\* The points (F, G) of the grid.
GridPoints(Flen, Gdim) == FVectors(Flen, GridVals) \X PsdMatrices(Gdim, GridVals)

\* No linear form of the list exceeds this on the grid.
FormBound(form) ==
    Abs(form.const)
    + SumSeq([i \in 1..Cardinality(DOMAIN form.Fweights) |-> Abs(form.Fweights[i - 1])])
    + SumSeq([i \in 1..Cardinality(DOMAIN form.Gweights) |->
         SumSeq([j \in 1..Cardinality(DOMAIN form.Gweights) |->
                    Abs(form.Gweights[i - 1][j - 1])])])

TMax(cl) == MaxOf({0} \cup {FormBound(cl[i].form) : i \in DOMAIN cl})

\* prob = cp.Problem(cp.Maximize(objective), constraints_list): the values
\* of t for which some (F, G) satisfies every constraint of the list.  The
\* value of the problem is the largest of them.
SdpValues(cl, Flen, Gdim) ==
    {t \in (0 - TMax(cl))..TMax(cl) :
        \E x \in GridPoints(Flen, Gdim) :
           \A i \in DOMAIN cl :
              IF cl[i].kind = "metric" THEN t <= EvalForm(cl[i].form, x[1], x[2])
              ELSE EvalForm(cl[i].form, x[1], x[2]) <= 0}

\* The expressions constrained to be <= 0: the conditions and the
\* constraints of the declared functions.
ConstrainedExprs(pep) ==
    pep.list_of_conditions
    \o Flatten2([k \in 1..Len(pep.list_of_functions) |->
                    pep.list_of_functions[k].list_of_constraints])

\* The least of the metrics at each point of the grid that satisfies the
\* conditions and the class constraints.
MinMetricValues(pep, Flen, Gdim) ==
    {MinOf({DirectEval(pep.list_of_performance_metrics[k], x[1], x[2]) :
               k \in DOMAIN pep.list_of_performance_metrics}) :
        x \in {y \in GridPoints(Flen, Gdim) :
                  \A i \in DOMAIN ConstrainedExprs(pep) :
                     DirectEval(ConstrainedExprs(pep)[i], y[1], y[2]) <= 0}}

\* C6: for a problem with at least one metric, the value of the compiled
\* problem (the largest t) is the largest, over the (F, G) that satisfy the
\* conditions and the class constraints, of the least of the metrics; the
\* compiled problem has a solution exactly when such an (F, G) exists.
C6_Epigraph ==
    (Compiled /\ last.instance.list_of_performance_metrics # <<>>) =>
        LET ts == SdpValues(last.constraints_list, last.Flen, last.Gdim)
            ms == MinMetricValues(last.instance, last.Flen, last.Gdim)
        IN  /\ ts = {} <=> ms = {}
            /\ ts # {} => MaxOf(ts) = MaxOf(ms)

\* A compiled problem with two metrics that differ at the optimum and a
\* condition that excludes part of the grid.
C6_Witness ==
    /\ Compiled
    /\ Len(last.instance.list_of_performance_metrics) = 2
    /\ last.instance.list_of_conditions # <<>>
    /\ LET ms == MinMetricValues(last.instance, last.Flen, last.Gdim)
           free == MinMetricValues([last.instance EXCEPT !.list_of_conditions = <<>>],
                                   last.Flen, last.Gdim)
           first == MinMetricValues([last.instance EXCEPT
                                        !.list_of_performance_metrics = <<@[1]>>],
                                    last.Flen, last.Gdim)
       IN  /\ ms # {}
           /\ MaxOf(ms) < MaxOf(free)
           /\ MaxOf(ms) < MaxOf(first)
           /\ MaxOf(ms) = MaxOf(SdpValues(last.constraints_list, last.Flen, last.Gdim))

-----------------------------------------------------------------------------
(* Claims about the outcome of solve().                                    *)

NonOptimal == SolverStatuses \ {"optimal"}

\* C11: a solve() whose solver call ended with a status other than optimal
\* (infeasible, unbounded, solver error) ends in an exception and not in
\* the return of a value, and it called the solver once.
C11_NonOptimalSurfaced ==
    (Solved /\ last.status \in NonOptimal) =>
        /\ last.raised # ""
        /\ last.stage # "return"
        /\ last.solver_calls = 1

\* An infeasible problem: solve() ends in eval_points_and_function_values,
\* where np.linalg.eig rejects G.value = None, after one solver call.
C11_Witness ==
    /\ Solved
    /\ last.status = "infeasible"
    /\ last.stage = "eval"
    /\ last.raised = "LinAlgError"
    /\ last.solver_calls = 1
    /\ last.constraints_list # <<>>

-----------------------------------------------------------------------------
(* Two instances sharing the class counters.  The first instance has       *)
(* minted MaxPoints + 1 initial points when the second is constructed; the *)
(* second is then built, a condition or a metric is registered on either,   *)
(* and either is solved.                                                   *)

InitShared ==
    /\ Point_counter = 0
    /\ Expression_counter = 0
    /\ Function_counter = 0
    /\ PEP_counter = 2
    /\ peps = <<[NewPEPInstance EXCEPT
                    !.counter = 0,
                    !.list_of_points = [i \in 1..(MaxPoints + 1) |-> LeafPoint(0, i - 1)]],
                [NewPEPInstance EXCEPT !.counter = 1]>>
    /\ point_value = [id \in {0} \X (0..MaxPoints) |-> NoValue]
    /\ expr_value = <<>>
    /\ nsolves = 0
    /\ last = NoSolve
    /\ pin = <<>>
    /\ pout = <<>>

NextShared ==
    \/ Function_counter < MaxFunctions /\ declare_function(2)
    \/ Point_counter < MaxPoints /\ set_initial_point(2)
    \/ \E k \in DOMAIN peps[2].list_of_functions :
          \E x \in Range(peps[2].list_of_points) :
             /\ Point_counter < MaxPoints
             /\ Expression_counter < MaxValues
             /\ oracle(2, k, x)
    \/ \E a \in DOMAIN peps : \E e \in SimpleExprs :
          RegCount < MaxRegs /\ set_initial_condition(a, e)
    \/ \E a \in DOMAIN peps : \E e \in SimpleExprs :
          RegCount < MaxRegs /\ set_performance_metric(a, e)
    \/ \E a \in DOMAIN peps : \E status \in SolverStatuses :
          \E eig_val \in EigChoices(status, EigSamplesBasic) : \E zero_ok \in BOOLEAN :
             nsolves < MaxSolves /\ solve(a, status, eig_val, zero_ok)

SpecShared == InitShared /\ [][NextShared]_vars

\* The leaves whose value the last solve() wrote.
WrittenPoints ==
    {id \in DOMAIN point_value :
        point_value[id] # NoValue /\ point_value[id][1] = nsolves}

WrittenValues ==
    {id \in DOMAIN expr_value :
        expr_value[id] # NoValue /\ expr_value[id][1] = nsolves}

\* The leaves of the instance's lists, as the reconstruction visits them.
TargetPoints(pep) ==
    {PointId(EvalTargets(pep)[i].obj) :
        i \in {j \in DOMAIN EvalTargets(pep) : EvalTargets(pep)[j].kind = "P"}}

TargetValues(pep) ==
    {ValueId(EvalTargets(pep)[i].obj) :
        i \in {j \in DOMAIN EvalTargets(pep) : EvalTargets(pep)[j].kind = "V"}}

\* C12: a solve() either returns and has written the value of every leaf
\* of the instance, or ends in an error and has written no value (here for
\* a solve with a metric whose variables F and G are not empty).
C12_AllOrNothing ==
    (/\ Solved
     /\ last.Gdim > 0 /\ last.Flen > 0
     /\ last.instance.list_of_performance_metrics # <<>>)
    => IF last.raised = ""
       THEN /\ WrittenPoints = TargetPoints(last.instance)
            /\ WrittenValues = TargetValues(last.instance)
       ELSE WrittenPoints = {} /\ WrittenValues = {}

-----------------------------------------------------------------------------
(* The reconstruction of the points from the Gram matrix (lines 215-239).  *)
(* The solver's G is given by what np.linalg.eig finds for it: eigenvalues *)
(* eig_val and orthogonal eigenvectors, the columns of W / sqrt(s) for an  *)
(* integer matrix W with W^T W = s I.  Every quantity below is s times the *)
(* real one, in units of 10^-5.                                            *)

EigBases ==
    {[n |-> 1, s |-> 1, W |-> <<<<1>>>>],
     [n |-> 2, s |-> 1, W |-> <<<<1, 0>>, <<0, 1>>>>],
     [n |-> 2, s |-> 1, W |-> <<<<0, 1>>, <<0 - 1, 0>>>>],
     [n |-> 2, s |-> 2, W |-> <<<<1, 1>>, <<1, 0 - 1>>>>],
     [n |-> 2, s |-> 25, W |-> <<<<3, 4>>, <<4, 0 - 3>>>>],
     [n |-> 3, s |-> 9, W |-> <<<<1, 2, 2>>, <<2, 1, 0 - 2>>, <<2, 0 - 2, 1>>>>]}

\* s * G[i][j] for the G with these eigenvalues and eigenvectors.
GramOf(b, eig_val) ==
    [i \in 1..b.n |-> [j \in 1..b.n |->
        SumSeq([k \in 1..b.n |-> eig_val[k] * b.W[i][k] * b.W[j][k]])]]

\* (np.sqrt(eig_val) * eig_vec).T: the entry in row k and column i is
\* sqrt(eig_val[k]) * eig_vec[i][k], kept as coef * sqrt(rad / s).
ScaledTranspose(b, eig_val) ==
    [k \in 1..b.n |-> [i \in 1..b.n |-> [coef |-> b.W[i][k], rad |-> eig_val[k]]]]

\* s times the inner product of columns i and j of the R factor of
\* np.linalg.qr(M, mode='r'): M = QR with orthonormal Q, so R^T R = M^T M;
\* the two entries of a row of M carry the same square root.
ColumnProduct(M, i, j) ==
    SumSeq([k \in 1..Len(M) |-> M[k][i].coef * M[k][j].coef * M[k][i].rad])

InitGram ==
    /\ pin \in {[basis |-> b, eig_val |-> ev] : b \in EigBases, ev \in EigInputs}
    /\ Len(pin.eig_val) = pin.basis.n
    /\ Point_counter = pin.basis.n
    /\ Expression_counter = 0
    /\ Function_counter = 0
    /\ PEP_counter = 1
    /\ peps = <<[NewPEPInstance EXCEPT
                   !.counter = 0,
                   !.list_of_points = [i \in 1..pin.basis.n |-> LeafPoint(0, i - 1)]]>>
    /\ point_value = [id \in {0} \X (0..(pin.basis.n - 1)) |-> NoValue]
    /\ expr_value = <<>>
    /\ nsolves = 0
    /\ last = NoSolve
    /\ pout = <<>>

\* A call of eval_points_and_function_values(F.value, G.value) with
\* G.value = GramOf(pin.basis, pin.eig_val) / s; inner[i][j] is s times the
\* inner product of the values given to the leaf points i - 1 and j - 1.
ReconstructStep ==
    /\ pout = <<>>
    /\ LET r == eval_points_and_function_values(peps[1], TRUE, pin.eig_val,
                                                Point_counter, Expression_counter)
           M == ScaledTranspose(pin.basis, r.eig_val)
       IN  /\ pout' = [raised |-> r.raised, eig_val |-> r.eig_val,
                       inner |-> IF r.raised # "" THEN <<>>
                                 ELSE [i \in 1..pin.basis.n |-> [j \in 1..pin.basis.n |->
                                          ColumnProduct(M, r.pv[<<0, i - 1>>][2] + 1,
                                                           r.pv[<<0, j - 1>>][2] + 1)]]]
           /\ point_value' = r.pv
           /\ expr_value' = r.ev
    /\ UNCHANGED <<Point_counter, Expression_counter, Function_counter, PEP_counter,
                   peps, nsolves, last, pin>>

NextGram == ReconstructStep

SpecGram == InitGram /\ [][NextGram]_vars

Reconstructed == pout # <<>> /\ pout.raised = ""

\* C14 as stated, with the solver tolerance 10^-6 the specification names:
\* after a reconstruction the inner product of the values of the leaf
\* points i and j differs from G[i, j] by at most 10^-6 (a tenth of a unit).
C14_RoundTripSolverTol ==
    Reconstructed =>
        \A i \in 1..pin.basis.n : \A j \in 1..pin.basis.n :
           10 * Abs(pout.inner[i][j] - GramOf(pin.basis, pin.eig_val)[i][j]) <= pin.basis.s

\* C14, amended: after a reconstruction the inner product of the values of
\* the leaf points i and j is the entry [i, j] of G with its negative
\* eigenvalues replaced by 0; it differs from G[i, j] by at most the
\* tolerance 10^-4 of the eigenvalue check, and not at all when G has no
\* negative eigenvalue.
C14_RoundTripClipped ==
    Reconstructed =>
        \A i \in 1..pin.basis.n : \A j \in 1..pin.basis.n :
           /\ pout.inner[i][j] =
                 GramOf(pin.basis, [k \in DOMAIN pin.eig_val |->
                           IF pin.eig_val[k] < 0 THEN 0 ELSE pin.eig_val[k]])[i][j]
           /\ Abs(pout.inner[i][j] - GramOf(pin.basis, pin.eig_val)[i][j])
                 <= pin.basis.s * Tol
           /\ (\A k \in DOMAIN pin.eig_val : pin.eig_val[k] >= 0) =>
                 pout.inner[i][j] = GramOf(pin.basis, pin.eig_val)[i][j]

\* A reconstruction from a G with off-diagonal entries and an eigenvalue of
\* -10^-4: the squared norm of the first point is off G[0, 0] by more than
\* 10^-6 and the inner product of the first two points is off G[0, 1].
C14_Witness ==
    /\ Reconstructed
    /\ pin.basis.n = 3
    /\ pin.eig_val = <<0 - Tol, 3, 0>>
    /\ GramOf(pin.basis, pin.eig_val)[1][2] # 0
    /\ pout.inner[1][2] # GramOf(pin.basis, pin.eig_val)[1][2]
    /\ 10 * Abs(pout.inner[1][1] - GramOf(pin.basis, pin.eig_val)[1][1]) > pin.basis.s

-----------------------------------------------------------------------------
(* One instance whose functions are declared with and without the flag and *)
(* queried, also repeatedly at the same point.                             *)

NextDeclare ==
    \/ PEP_counter < 1 /\ PEP_init
    \/ \E a \in DOMAIN peps : Function_counter < MaxFunctions + 1 /\ declare_function(a)
    \/ \E a \in DOMAIN peps : \E flag \in BOOLEAN :
          Function_counter < MaxFunctions + 1 /\ declare_function_with(a, flag)
    \/ \E a \in DOMAIN peps : Point_counter < MaxPoints + 2 /\ set_initial_point(a)
    \/ \E a \in DOMAIN peps : \E k \in DOMAIN peps[a].list_of_functions :
          \E x \in Range(peps[a].list_of_points) :
             /\ Point_counter < MaxPoints + 2
             /\ Expression_counter < MaxValues + 2
             /\ oracle(a, k, x)

SpecDeclare == Init /\ [][NextDeclare]_vars

-----------------------------------------------------------------------------
(* One instance built with lists of conditions and metrics of more than    *)
(* one element, some of them malformed, and solved.                        *)

BuildExprs == SimpleExprs \cup {Composite(<<Item(StrKey, 1)>>)}

NextBuild ==
    \/ PEP_counter < 1 /\ PEP_init
    \/ \E a \in DOMAIN peps : Function_counter < MaxFunctions /\ declare_function(a)
    \/ \E a \in DOMAIN peps : Point_counter < MaxPoints /\ set_initial_point(a)
    \/ \E a \in DOMAIN peps : \E k \in DOMAIN peps[a].list_of_functions :
          \E x \in Range(peps[a].list_of_points) :
             /\ Point_counter < MaxPoints
             /\ Expression_counter < MaxValues
             /\ oracle(a, k, x)
    \/ \E a \in DOMAIN peps : \E e \in BuildExprs :
          Len(peps[a].list_of_conditions) < MaxPerList + 1 /\ set_initial_condition(a, e)
    \/ \E a \in DOMAIN peps : \E e \in BuildExprs :
          Len(peps[a].list_of_performance_metrics) < MaxPerList + 1
          /\ set_performance_metric(a, e)
    \/ \E a \in DOMAIN peps : \E status \in SolverStatuses :
          \E eig_val \in EigChoices(status, EigSamplesBasic) : \E zero_ok \in BOOLEAN :
             nsolves < MaxSolves /\ solve(a, status, eig_val, zero_ok)

SpecBuild == Init /\ [][NextBuild]_vars


\* The four lists of instance a other than those named in S are unchanged,
\* and so is every other instance.
OtherListsUnchanged(a, S) ==
    /\ DOMAIN peps' = DOMAIN peps
    /\ \A b \in DOMAIN peps \ {a} : peps'[b] = peps[b]
    /\ peps'[a].counter = peps[a].counter
    /\ "functions" \notin S => peps'[a].list_of_functions = peps[a].list_of_functions
    /\ "points" \notin S => peps'[a].list_of_points = peps[a].list_of_points
    /\ "conditions" \notin S => peps'[a].list_of_conditions = peps[a].list_of_conditions
    /\ "metrics" \notin S =>
          peps'[a].list_of_performance_metrics = peps[a].list_of_performance_metrics

\* new is old with one element appended.
AppendsOne(old, new) == Len(new) = Len(old) + 1 /\ SubSeq(new, 1, Len(old)) = old

CountersUnchanged ==
    /\ Point_counter' = Point_counter
    /\ Expression_counter' = Expression_counter
    /\ Function_counter' = Function_counter

\* C17: declare_function, set_initial_point, set_initial_condition and
\* set_performance_metric each append one element at the end of their own
\* list and leave the other lists as they were; set_initial_condition and
\* set_performance_metric store their argument as it is, whatever it is,
\* and mint no index.
C17_BuildersFramed ==
    [][\A a \in DOMAIN peps :
          /\ declare_function(a) =>
                /\ AppendsOne(peps[a].list_of_functions, peps'[a].list_of_functions)
                /\ OtherListsUnchanged(a, {"functions"})
          /\ set_initial_point(a) =>
                /\ AppendsOne(peps[a].list_of_points, peps'[a].list_of_points)
                /\ OtherListsUnchanged(a, {"points"})
          /\ \A e \in BuildExprs :
                /\ set_initial_condition(a, e) =>
                      /\ peps'[a].list_of_conditions = peps[a].list_of_conditions \o <<e>>
                      /\ OtherListsUnchanged(a, {"conditions"})
                      /\ CountersUnchanged
                /\ set_performance_metric(a, e) =>
                      /\ peps'[a].list_of_performance_metrics =
                            peps[a].list_of_performance_metrics \o <<e>>
                      /\ OtherListsUnchanged(a, {"metrics"})
                      /\ CountersUnchanged]_vars

\* A malformed condition was registered after a well-formed one, a
\* well-formed metric, a function and a point, and only the solve() ended
\* in an error, at compile time.
C17_Witness ==
    /\ Solved
    /\ last.stage = "compile"
    /\ last.raised # ""
    /\ last.solver_calls = 0
    /\ Len(last.instance.list_of_conditions) = 2
    /\ last.instance.list_of_conditions[1] \in SimpleExprs
    /\ last.instance.list_of_conditions[2] = Composite(<<Item(StrKey, 1)>>)
    /\ \E i \in DOMAIN last.instance.list_of_performance_metrics :
          last.instance.list_of_performance_metrics[i] \in SimpleExprs
    /\ last.instance.list_of_functions # <<>>
    /\ last.instance.list_of_points # <<>>

-----------------------------------------------------------------------------
(* One instance built, given a metric or a condition, and solved more than *)
(* once.                                                                   *)

NextResolve ==
    \/ PEP_counter < 1 /\ PEP_init
    \/ \E a \in DOMAIN peps : Function_counter < MaxFunctions /\ declare_function(a)
    \/ \E a \in DOMAIN peps : Point_counter < MaxPoints /\ set_initial_point(a)
    \/ \E a \in DOMAIN peps : \E k \in DOMAIN peps[a].list_of_functions :
          \E x \in Range(peps[a].list_of_points) :
             /\ Point_counter < MaxPoints
             /\ Expression_counter < MaxValues
             /\ oracle(a, k, x)
    \/ \E a \in DOMAIN peps : \E e \in SimpleExprs :
          RegCount < MaxRegs /\ set_initial_condition(a, e)
    \/ \E a \in DOMAIN peps : \E e \in SimpleExprs :
          RegCount < MaxRegs /\ set_performance_metric(a, e)
    \/ \E a \in DOMAIN peps : \E status \in SolverStatuses :
          \E eig_val \in EigChoices(status, EigSamplesBasic) : \E zero_ok \in BOOLEAN :
             nsolves < MaxSolves + 1 /\ solve(a, status, eig_val, zero_ok)

SpecResolve == Init /\ [][NextResolve]_vars

\* The constraints of the compiled problem that follow those of the
\* metrics and of the conditions.
ClassPart(inst, cl) ==
    SubSeq(cl, Len(inst.list_of_performance_metrics) + Len(inst.list_of_conditions) + 1,
           Len(cl))

-----------------------------------------------------------------------------
(* The example scripts.  wc_gradient_descent_OBS_F first builds the        *)
(* stepsize schedule h = OBS_F(n).sequence; every script then constructs a *)
(* PEP and calls its methods.  pin is the script and its argument n; pout  *)
(* is the position of the run: pc, the exception it ended in, the loop     *)
(* index i and the arrays of compute_fcomp_pivots, the schedule h, and the *)
(* number k of calls on the PEP instance made so far.  The rates are       *)
(* floating-point numbers that only decide the comparison of line 175,     *)
(* which is taken either way.                                              *)

MaxN == 5

OBS_FILE == "gradient_descent_optimized_basic_stepsizes_f"

Examples == {OBS_FILE, "no_lips_1", "no_lips_in_function_value"}

\* numpy accepts the index idx on an array of the given size.
ValidIndex(idx, size) == 0 - size <= idx /\ idx < size

\* compute_scomp_pivots(N): s_pivot[i] = floor(i / 2), s_pivot[0] = 0.
compute_scomp_pivots(N) == [i \in 0..N |-> i \div 2]

\* The reads of s_rate in the loop of compute_scomp_pivots stay in the array.
ScompReadsValid(N) ==
    \A i \in 1..N :
       LET p == compute_scomp_pivots(N)[i]
       IN  /\ p # 0 => ValidIndex(p, N + 1)
           /\ i - 1 - p # 0 => ValidIndex(i - 1 - p, N + 1)

\* The reads of lines 165-172 for the index i, m being f_pivot[i - 1].
FcompReadsValid(N, i, m) ==
    /\ m # 0 => ValidIndex(m, N + 1)
    /\ i - 1 - m # 0 => ValidIndex(i - 1 - m, N + 1)
    /\ m + 1 # 0 => ValidIndex(m + 1, N + 1)
    /\ ~(i - 1 - (m + 1) <= 0) => ValidIndex(i - 1 - (m + 1), N + 1)

\* OBS_S_with_pivots(N, s_pivot).sequence: each stepsize is named by the
\* join that made it and the N of the call.
RECURSIVE OBS_S_with_pivots(_, _)
OBS_S_with_pivots(N, s_pivot) ==
    IF N = 0 THEN <<>>
    ELSE OBS_S_with_pivots(s_pivot[N], s_pivot)
         \o <<[join |-> "join_scomp_objects", N |-> N]>>
         \o OBS_S_with_pivots(N - 1 - s_pivot[N], s_pivot)

\* OBS_F_with_pivots(N, s_pivot, f_pivot).sequence
RECURSIVE OBS_F_with_pivots(_, _, _)
OBS_F_with_pivots(N, s_pivot, f_pivot) ==
    IF N = 0 THEN <<>>
    ELSE OBS_S_with_pivots(f_pivot[N], s_pivot)
         \o <<[join |-> "join_scomp_fcomp", N |-> N]>>
         \o OBS_F_with_pivots(N - 1 - f_pivot[N], s_pivot, f_pivot)

\* The pairs <<N, argument>> of the recursive calls OBS_S_with_pivots(N) makes.
RECURSIVE CallsS(_, _)
CallsS(N, s_pivot) ==
    IF N = 0 THEN {}
    ELSE {<<N, s_pivot[N]>>, <<N, N - 1 - s_pivot[N]>>}
         \cup (IF s_pivot[N] \in 0..(N - 1) THEN CallsS(s_pivot[N], s_pivot) ELSE {})
         \cup (IF N - 1 - s_pivot[N] \in 0..(N - 1)
               THEN CallsS(N - 1 - s_pivot[N], s_pivot) ELSE {})

\* The same for OBS_F_with_pivots(N).
RECURSIVE CallsF(_, _, _)
CallsF(N, s_pivot, f_pivot) ==
    IF N = 0 THEN {}
    ELSE {<<N, f_pivot[N]>>, <<N, N - 1 - f_pivot[N]>>}
         \cup (IF f_pivot[N] \in 0..(N - 1) THEN CallsS(f_pivot[N], s_pivot) ELSE {})
         \cup (IF N - 1 - f_pivot[N] \in 0..(N - 1)
               THEN CallsF(N - 1 - f_pivot[N], s_pivot, f_pivot) ELSE {})

\* The parameters of the methods of PEP after self: those without a
\* default, then those with one.
Signature(method) ==
    IF method = "declare_function"
         THEN [required |-> <<"function_class", "param">>, optional |-> <<"is_differentiable">>]
    ELSE IF method = "set_initial_point" THEN [required |-> <<>>, optional |-> <<>>]
    ELSE IF method = "set_initial_condition"
         THEN [required |-> <<"condition">>, optional |-> <<>>]
    ELSE IF method = "set_performance_metric"
         THEN [required |-> <<"expression">>, optional |-> <<>>]
    ELSE [required |-> <<>>, optional |-> <<"solver", "verbose">>]

\* Python binds a call with npos positional arguments and the keywords kw
\* to the method: no more positional arguments than parameters, every
\* keyword a parameter not already given by position, every parameter
\* without default given.
Binds(method, npos, kw) ==
    LET names == Signature(method).required \o Signature(method).optional
    IN  /\ npos <= Len(names)
        /\ \A w \in kw : \E j \in (npos + 1)..Len(names) : names[j] = w
        /\ \A j \in 1..Len(Signature(method).required) : j <= npos \/ names[j] \in kw

Call(method, npos, kw) == [method |-> method, npos |-> npos, kw |-> kw]

\* The calls each script makes on its PEP instance, in order.
ExampleCalls(example, n) ==
    IF example = OBS_FILE THEN
        <<Call("declare_function", 1, {"L"}),
          Call("set_initial_point", 0, {}),
          Call("set_initial_condition", 1, {}),
          Call("set_performance_metric", 1, {}),
          Call("solve", 0, {"wrapper", "solver", "verbose"})>>
    ELSE IF example = "no_lips_1" THEN
        <<Call("declare_function", 1, {"reuse_gradient"}),
          Call("declare_function", 1, {"reuse_gradient"}),
          Call("declare_function", 1, {"D"}),
          Call("set_initial_point", 0, {})>>
        \o [i \in 1..n |-> Call("set_performance_metric", 1, {})]
        \o <<Call("set_initial_condition", 1, {}),
             Call("solve", 0, {"wrapper", "solver", "verbose"})>>
    ELSE
        <<Call("declare_function", 1, {"reuse_gradient"}),
          Call("declare_function", 1, {"reuse_gradient"}),
          Call("declare_function", 1, {"D"}),
          Call("set_initial_point", 0, {}),
          Call("set_initial_condition", 1, {}),
          Call("set_performance_metric", 1, {}),
          Call("solve", 0, {"wrapper", "solver", "verbose"})>>

NoRun == [pc |-> "start", raised |-> "", i |-> 0, s_pivot |-> <<>>, f_pivot |-> <<>>,
          h |-> <<>>, k |-> 0]

InitExample ==
    /\ Point_counter = 0
    /\ Expression_counter = 0
    /\ Function_counter = 0
    /\ PEP_counter = 0
    /\ peps = <<>>
    /\ point_value = <<>>
    /\ expr_value = <<>>
    /\ nsolves = 0
    /\ last = NoSolve
    /\ pin \in {[example |-> e, n |-> n] : e \in Examples, n \in 0..MaxN}
    /\ pout = [NoRun EXCEPT !.pc = IF pin.example = OBS_FILE THEN "start" ELSE "PEP"]

\* OBS_F, lines 202-203 up to the loop of compute_fcomp_pivots:
\* compute_scomp_pivots(N), then f_pivot = np.zeros(N + 1); f_pivot[1] = 0.
OBS_F_begin ==
    /\ pout.pc = "start"
    /\ pout' = IF ~ScompReadsValid(pin.n) \/ ~ValidIndex(1, pin.n + 1)
               THEN [pout EXCEPT !.pc = "raised", !.raised = "IndexError",
                                 !.s_pivot = compute_scomp_pivots(pin.n)]
               ELSE [pout EXCEPT !.pc = "fcomp", !.i = 2,
                                 !.s_pivot = compute_scomp_pivots(pin.n),
                                 !.f_pivot = [j \in 0..pin.n |-> 0]]
    /\ UNCHANGED <<basis, pin>>

\* One iteration of the loop of compute_fcomp_pivots (lines 164-180);
\* less is the outcome of rate1 < rate2.
compute_fcomp_pivots_step(less) ==
    /\ pout.pc = "fcomp"
    /\ pout.i <= pin.n
    /\ LET m == pout.f_pivot[pout.i - 1]
       IN  pout' = IF ~FcompReadsValid(pin.n, pout.i, m)
                   THEN [pout EXCEPT !.pc = "raised", !.raised = "IndexError"]
                   ELSE [pout EXCEPT !.f_pivot[pout.i] = IF less THEN m ELSE m + 1,
                                     !.i = pout.i + 1]
    /\ UNCHANGED <<basis, pin>>

\* OBS_F, line 204, and h = obsSchedule.sequence (line 207).
OBS_F_build ==
    /\ pout.pc = "fcomp"
    /\ pout.i > pin.n
    /\ pout' = [pout EXCEPT !.pc = "PEP",
                            !.h = OBS_F_with_pivots(pin.n, pout.s_pivot, pout.f_pivot)]
    /\ UNCHANGED <<basis, pin>>

\* problem = PEP()
example_PEP ==
    /\ pout.pc = "PEP"
    /\ Point_counter' = 0
    /\ Expression_counter' = 0
    /\ Function_counter' = 0
    /\ peps' = Append(peps, NewPEPInstance)
    /\ PEP_counter' = PEP_counter + 1
    /\ pout' = [pout EXCEPT !.pc = "calls"]
    /\ UNCHANGED <<point_value, expr_value, nsolves, last, pin>>

\* The next call of the script on its PEP instance: Python binds the
\* arguments to the method's parameters or raises TypeError.
example_call ==
    /\ pout.pc = "calls"
    /\ pout.k < Len(ExampleCalls(pin.example, pin.n))
    /\ LET c == ExampleCalls(pin.example, pin.n)[pout.k + 1]
       IN  pout' = IF Binds(c.method, c.npos, c.kw)
                   THEN [pout EXCEPT !.k = pout.k + 1]
                   ELSE [pout EXCEPT !.pc = "raised", !.raised = "TypeError"]
    /\ UNCHANGED <<basis, pin>>

NextExample ==
    \/ OBS_F_begin
    \/ \E less \in BOOLEAN : compute_fcomp_pivots_step(less)
    \/ OBS_F_build
    \/ example_PEP
    \/ example_call

SpecExample == InitExample /\ [][NextExample]_vars

\* The schedule h has been built.
Scheduled ==
    /\ pin.example = OBS_FILE
    /\ pout.pc \in {"PEP", "calls"} \/ pout.raised = "TypeError"

\* The largest number of the form 2^k - 1 that does not exceed n, from c.
RECURSIVE LargestPow2Minus1(_, _)
LargestPow2Minus1(n, c) == IF 2 * c + 1 <= n THEN LargestPow2Minus1(n, 2 * c + 1) ELSE c

(* C16: for every provided n >= 1, wc_gradient_descent_OBS_F uses a        *)
(* stepsize schedule whose length is n reset to the largest 2^k - 1 that   *)
(* does not exceed n.                                                      *)
C16_ResetToPowerOfTwo ==
    (pin.example = OBS_FILE /\ pin.n >= 1 /\ Scheduled)
        => Len(pout.h) = LargestPow2Minus1(pin.n, 0)

(* C19: for every n >= 0, OBS_F(n) ends without an index error and with a  *)
(* schedule of exactly n entries; s_pivot[i] = floor(i/2), f_pivot[1] = 0, *)
(* f_pivot grows by 0 or 1 and stays within 0..i-1, and every recursive    *)
(* call is on a strictly smaller non-negative argument.                    *)
C19_ScheduleDefined ==
    pin.example = OBS_FILE =>
        /\ pout.raised # "IndexError"
        /\ Scheduled =>
              /\ Len(pout.h) = pin.n
              /\ \A i \in 1..pin.n : pout.s_pivot[i] = i \div 2
              /\ pin.n >= 1 => pout.f_pivot[1] = 0
              /\ \A i \in 2..pin.n :
                    /\ pout.f_pivot[i] - pout.f_pivot[i - 1] \in {0, 1}
                    /\ 0 <= pout.f_pivot[i] /\ pout.f_pivot[i] <= i - 1
              /\ \A c \in CallsF(pin.n, pout.s_pivot, pout.f_pivot) :
                    0 <= c[2] /\ c[2] < c[1]

(* C20: no example ends in an argument error: every call it makes on its   *)
(* PEP instance is accepted by the method it calls.                        *)
C20_ExamplesAccepted == pout.raised # "TypeError"

====
